---------------------------- MODULE Spec2Model ----------------------------
(***************************************************************************)
(* A model of src/rox.py, the RoxieStreams playlist generator.             *)
(*                                                                         *)
(* Strings are sequences of tokens.  A token is an atomic run of           *)
(* characters ("http", ".m3u8", "Watch", "amp;", ...) or one character     *)
(* ("/", ":", "-", " ", ...).  The string a sequence stands for is the     *)
(* concatenation of its tokens; the token sets below are chosen so that no *)
(* two different token sequences spell the same string.  A page is a       *)
(* sequence of elements in document order.  Python's None is None where a  *)
(* string may stand, NoSoup where a document may, NoTag where an element   *)
(* may, and Nothing elsewhere.                                             *)
(***************************************************************************)
EXTENDS Integers, Sequences, FiniteSets, TLC

None == <<"None">>

NoTag == [tag |-> "None"]

NoSoup == <<NoTag>>

Nothing == [none |-> TRUE]

-----------------------------------------------------------------------------
(* Generic sequence helpers.                                               *)

MinOf(S) == CHOOSE i \in S : \A j \in S : i <= j

MaxOf(S) == CHOOSE i \in S : \A j \in S : j <= i

\* The subsequence of s at the (ordered) index set idx.
AtIndices(s, idx) ==
    [k \in 1..Cardinality(idx) |->
        s[CHOOSE i \in idx : Cardinality({j \in idx : j <= i}) = k]]

\* s[i..] starts with the tokens of p.
StartsWithAt(s, i, p) ==
    /\ i + Len(p) - 1 <= Len(s)
    /\ \A k \in 1..Len(p) : s[i + k - 1] = p[k]

StartsWith(s, p) == StartsWithAt(s, 1, p)

\* Python's "p in s" for strings: p occurs in s.
Contains(s, p) == \E i \in 1..(Len(s) + 1) : StartsWithAt(s, i, p)

RECURSIVE Concat(_)
Concat(ss) == IF Len(ss) = 0 THEN <<>> ELSE Head(ss) \o Concat(Tail(ss))

\* Python's s.replace(p, r), p non-empty: leftmost non-overlapping occurrences.
RECURSIVE Replace(_, _, _)
Replace(s, p, r) ==
    IF Len(s) = 0 THEN <<>>
    ELSE IF StartsWith(s, p)
         THEN r \o Replace(SubSeq(s, Len(p) + 1, Len(s)), p, r)
         ELSE <<Head(s)>> \o Replace(Tail(s), p, r)

\* Python truthiness of a string-or-None value.
Truthy(s) == s # None /\ s # <<>>

\* Python's "a or b" on string-or-None values.
Or(a, b) == IF Truthy(a) THEN a ELSE b

-----------------------------------------------------------------------------
(* Characters and str methods.                                             *)

\* Whitespace characters (str.strip(), str.split() and the regex class \s).
Whitespace == {" ", "\n"}

IsSpace(c) == c \in Whitespace

\* Python's s.strip(chars): drop leading and trailing characters of cs.
StripChars(s, cs) ==
    LET idx == {i \in 1..Len(s) : s[i] \notin cs}
    IN  IF idx = {} THEN <<>> ELSE SubSeq(s, MinOf(idx), MaxOf(idx))

\* Python's s.rstrip(chars).
RStripChars(s, cs) ==
    LET idx == {i \in 1..Len(s) : s[i] \notin cs}
    IN  IF idx = {} THEN <<>> ELSE SubSeq(s, 1, MaxOf(idx))

\* Python's s.strip().
Strip(s) == StripChars(s, Whitespace)

\* Python's " ".join(s.split()): whitespace runs become one space, none at
\* either end.
JoinSplit(s) ==
    LET t    == Strip(s)
        keep == {i \in 1..Len(t) : ~(IsSpace(t[i]) /\ i > 1 /\ IsSpace(t[i - 1]))}
        u    == AtIndices(t, keep)
    IN  [k \in 1..Len(u) |-> IF IsSpace(u[k]) THEN " " ELSE u[k]]

\* The HTML entities of the model: the text after "&" and what it decodes to.
Entity == [e \in {"amp;", "#45;"} |-> IF e = "amp;" THEN "&" ELSE "-"]

\* html.unescape: one left-to-right pass; a decoded "&" is not read again.
RECURSIVE html_unescape(_)
html_unescape(s) ==
    IF Len(s) = 0 THEN <<>>
    ELSE IF Len(s) >= 2 /\ s[1] = "&" /\ s[2] \in DOMAIN Entity
         THEN <<Entity[s[2]]>> \o html_unescape(SubSeq(s, 3, Len(s)))
         ELSE <<Head(s)>> \o html_unescape(Tail(s))

\* Case folding of the words the IGNORECASE patterns name.
Fold(c) ==
    CASE c = "watch" -> "Watch"
      [] c = "ROXIESTREAMS" -> "Roxiestreams"
      [] c = ".M3U8" -> ".m3u8"
      [] c = "HTTP" -> "http"
      [] c = "S" -> "s"
      [] OTHER -> c

FoldSeq(s) == [k \in 1..Len(s) |-> Fold(s[k])]

-----------------------------------------------------------------------------
(* clean_event_title                                                       *)

\* The regex \s*SEP\s*WORDS (IGNORECASE) matches at position i of t.
SuffixMatchAt(t, i, sep, words) ==
    \E a \in 0..(Len(t) - i + 1) : \E b \in 0..(Len(t) - i + 1) :
        /\ i + a + b <= Len(t)
        /\ \A k \in i..(i + a - 1) : IsSpace(t[k])
        /\ t[i + a] = sep
        /\ \A k \in (i + a + 1)..(i + a + b) : IsSpace(t[k])
        /\ StartsWithAt(FoldSeq(t), i + a + b + 1, words)

\* re.sub(r"\s*SEP\s*WORDS.*$", "", t): cut t at the leftmost match.  No
\* newline is left in t when this runs, so ".*$" reaches the end of t.
CutSuffix(t, sep, words) ==
    LET at == {i \in 1..Len(t) : SuffixMatchAt(t, i, sep, words)}
    IN  IF at = {} THEN t ELSE SubSeq(t, 1, MinOf(at) - 1)

clean_event_title(raw_title) ==
    IF ~Truthy(raw_title) THEN <<>>
    ELSE LET t0 == Strip(html_unescape(raw_title))
             t1 == JoinSplit(t0)
             t2 == CutSuffix(t1, "-", <<"Roxiestreams">>)
             t3 == CutSuffix(t2, "-", <<"Watch", " ", "Live">>)
             t4 == CutSuffix(t3, "-", <<"Watch">>)
             t5 == CutSuffix(t4, "-", <<"Live", " ", "Stream">>)
             t6 == CutSuffix(t5, "|", <<>>)
         IN  StripChars(t6, {" ", "-", ",", ":"})

-----------------------------------------------------------------------------
(* urllib.parse: urlsplit, urlunsplit, urljoin.                            *)

\* Tokens made only of characters a URL scheme may hold (letters, digits,
\* "+", "-", "."), and those among them that begin with a letter.
SchemeTokens ==
    {"http", "HTTP", "ftp", "rtmp", "s", "S", "h", "p", "q", "a", "b", "x", "1", "2", "3",
     "-", ".m3u8", ".M3U8", ".mp4", "roxie", "cdn", "live", "ev", "if", "nest",
     "soccer", "streams", "game", "match", "about", "mailto", "javascript",
     "Watch", "watch", "Live", "Stream"}

\* urllib.parse.uses_relative and uses_netloc, as far as the model's schemes go.
UsesRelative == {<<>>, <<"http">>, <<"http", "s">>, <<"ftp">>}

\* The index of the first token of s in cs, or Len(s) + 1.
FirstOf(s, cs) ==
    LET at == {i \in 1..Len(s) : s[i] \in cs}
    IN  IF at = {} THEN Len(s) + 1 ELSE MinOf(at)

\* s up to, after, and from the first token of s in cs.
BeforeFirst(s, cs) == SubSeq(s, 1, FirstOf(s, cs) - 1)

AfterFirst(s, cs) == SubSeq(s, FirstOf(s, cs) + 1, Len(s))

FromFirst(s, cs) == SubSeq(s, FirstOf(s, cs), Len(s))

\* url begins with a scheme: a letter, then scheme characters, then ":".
has_scheme(url) ==
    /\ \E k \in 2..Len(url) : url[k] = ":"
    /\ url[1] \in SchemeTokens \ {"1", "2", "3", "-", ".m3u8", ".M3U8", ".mp4"}
    /\ \A k \in 1..Len(BeforeFirst(url, {":"})) : url[k] \in SchemeTokens

\* The path and the query of rest, which holds no fragment.
split_query(scheme, netloc, rest, fragment) ==
    [scheme   |-> scheme,
     netloc   |-> netloc,
     path     |-> BeforeFirst(rest, {"?"}),
     query    |-> AfterFirst(rest, {"?"}),
     fragment |-> fragment]

\* The fragment of rest, which holds no scheme and no netloc.
split_fragment(scheme, netloc, rest) ==
    split_query(scheme, netloc, BeforeFirst(rest, {"#"}), AfterFirst(rest, {"#"}))

\* The netloc of rest, which holds no scheme.
split_netloc(scheme, rest) ==
    IF StartsWith(rest, <<"/", "/">>)
    THEN split_fragment(scheme,
                        BeforeFirst(SubSeq(rest, 3, Len(rest)), {"/", "?", "#"}),
                        FromFirst(SubSeq(rest, 3, Len(rest)), {"/", "?", "#"}))
    ELSE split_fragment(scheme, <<>>, rest)

\* urlsplit(url, scheme=default): scheme, netloc, path, query, fragment.
urlsplit(url, default) ==
    IF has_scheme(url)
    THEN split_netloc(FoldSeq(BeforeFirst(url, {":"})), AfterFirst(url, {":"}))
    ELSE split_netloc(default, url)

\* urlparse(url).scheme and urlparse(url).path
UrlScheme(url) == urlsplit(url, <<>>).scheme

UrlPath(url) == urlsplit(url, <<>>).path

\* urlunsplit
urlunsplit(u) ==
    LET p0 == IF u.netloc # <<>>
                 \/ (u.scheme # <<>> /\ u.scheme \in UsesRelative
                       /\ ~StartsWith(u.path, <<"/", "/">>))
              THEN <<"/", "/">> \o u.netloc
                     \o (IF u.path # <<>> /\ u.path[1] # "/" THEN <<"/">> ELSE <<>>)
                     \o u.path
              ELSE u.path
        p1 == IF u.scheme # <<>> THEN u.scheme \o <<":">> \o p0 ELSE p0
        p2 == IF u.query # <<>> THEN p1 \o <<"?">> \o u.query ELSE p1
    IN  IF u.fragment # <<>> THEN p2 \o <<"#">> \o u.fragment ELSE p2

\* s.split(c): the segments of s between the occurrences of c.
RECURSIVE SplitOn(_, _)
SplitOn(s, c) ==
    LET i == FirstOf(s, {c})
    IN  IF i > Len(s) THEN <<s>>
        ELSE <<SubSeq(s, 1, i - 1)>> \o SplitOn(SubSeq(s, i + 1, Len(s)), c)

\* c.join(segs)
RECURSIVE JoinWith(_, _)
JoinWith(segs, c) ==
    IF Len(segs) = 0 THEN <<>>
    ELSE IF Len(segs) = 1 THEN segs[1]
    ELSE segs[1] \o <<c>> \o JoinWith(Tail(segs), c)

\* segments[1:-1] = filter(None, segments[1:-1])
drop_empty_middle(segments) ==
    IF Len(segments) < 2 THEN segments
    ELSE <<segments[1]>>
           \o SelectSeq(SubSeq(segments, 2, Len(segments) - 1), LAMBDA x : x # <<>>)
           \o <<segments[Len(segments)]>>

\* The directory segments of the base path: its last segment is dropped
\* unless it is empty.
base_parts(bpath) ==
    LET parts == SplitOn(bpath, "/")
    IN  IF parts[Len(parts)] # <<>> THEN SubSeq(parts, 1, Len(parts) - 1) ELSE parts

\* The path of the joined URL: a rooted path is kept, a relative one is
\* resolved against the directory of the base path.
joined_path(bpath, path) ==
    LET segments == IF path[1] = "/" THEN SplitOn(path, "/")
                    ELSE drop_empty_middle(base_parts(bpath) \o SplitOn(path, "/"))
        joined   == JoinWith(segments, "/")
    IN  IF joined = <<>> THEN <<"/">> ELSE joined

\* urljoin once both URLs are split.
join_split(b, u, url) ==
    IF u.scheme # b.scheme \/ u.scheme \notin UsesRelative THEN url
    ELSE IF u.netloc # <<>> THEN urlunsplit(u)
    ELSE IF u.path = <<>>
         THEN urlunsplit([u EXCEPT !.netloc = b.netloc, !.path = b.path,
                                   !.query = IF u.query = <<>> THEN b.query ELSE u.query])
    ELSE urlunsplit([u EXCEPT !.netloc = b.netloc, !.path = joined_path(b.path, u.path)])

join_base(b, url) == join_split(b, urlsplit(url, b.scheme), url)

\* urljoin(base, url).  The model's paths hold no "." or ".." segment.
urljoin(base, url) ==
    IF ~Truthy(base) THEN url
    ELSE IF ~Truthy(url) THEN base
    ELSE join_base(urlsplit(base, <<>>), url)

-----------------------------------------------------------------------------
(* M3U8_RE and extract_m3u8_from_text                                      *)

\* The characters the pattern's classes exclude: whitespace, quotes, angle
\* brackets and the backquote (written "BACKQUOTE": a string of the module
\* cannot hold the character).
UrlDelims == Whitespace \cup {"\"", "'", "<", ">", "BACKQUOTE"}

\* Where the match of M3U8_RE that starts at i ends, or 0 when none does:
\* "http", an optional "s", "://", a lazy run of one or more non-delimiters,
\* ".m3u8", then optionally "?" and a greedy run of non-delimiters (IGNORECASE).
M3U8_MatchEnd(t, i) ==
    LET n    == Len(t)
        hasS == i + 1 <= n /\ Fold(t[i + 1]) = "s" /\ StartsWithAt(t, i + 2, <<":", "/", "/">>)
        b    == IF hasS THEN i + 5 ELSE i + 4   \* first token of the lazy run
        ok   == /\ i <= n
                /\ Fold(t[i]) = "http"
                /\ (hasS \/ StartsWithAt(t, i + 1, <<":", "/", "/">>))
        ends == {e \in (b + 1)..n : Fold(t[e]) = ".m3u8"}
        e    == MinOf(ends)
        qend == IF e + 1 <= n /\ t[e + 1] = "?"
                THEN FirstOf(SubSeq(t, e + 2, n), UrlDelims) + e
                ELSE e
    IN  IF ok /\ ends # {} /\ (\A k \in b..(e - 1) : t[k] \notin UrlDelims)
        THEN qend ELSE 0

\* M3U8_RE.search(text): the leftmost match, or None.
M3U8_RE_search(t) ==
    LET at == {i \in 1..Len(t) : M3U8_MatchEnd(t, i) # 0}
    IN  IF at = {} THEN None
        ELSE SubSeq(t, MinOf(at), M3U8_MatchEnd(t, MinOf(at)))

\* M3U8_RE.findall(text): every match, left to right, without overlap.
RECURSIVE M3U8_RE_findall(_)
M3U8_RE_findall(t) ==
    LET at == {i \in 1..Len(t) : M3U8_MatchEnd(t, i) # 0}
    IN  IF at = {} THEN <<>>
        ELSE LET i == MinOf(at)
                 e == M3U8_MatchEnd(t, i)
             IN  <<SubSeq(t, i, e)>> \o M3U8_RE_findall(SubSeq(t, e + 1, Len(t)))

\* Lines 78-79: a match without a scheme is joined to base.
resolve_against(url, base) ==
    IF Truthy(base) /\ UrlScheme(url) = <<>> THEN urljoin(base, url) ELSE url

\* Lines 73-80: the match m of the search, made an absolute URL.
normalize_match(m, base) ==
    IF m = None THEN None
    ELSE resolve_against(IF StartsWith(m, <<"/", "/">>)
                         THEN <<"http", "s", ":">> \o m ELSE m, base)

extract_m3u8_from_text(text, base) ==
    IF ~Truthy(text) THEN None ELSE normalize_match(M3U8_RE_search(text), base)

-----------------------------------------------------------------------------
(* Pages.  A parsed document (soup) is the sequence of its elements:       *)
(*   [tag |-> "a", href, text]           an anchor with an href attribute  *)
(*   [tag |-> "source", src, title]      a source or video with a src      *)
(*   [tag |-> "iframe", src, title]      an iframe with a src              *)
(*   [tag |-> "h1", text], [tag |-> "title", text]                         *)
(*   [tag |-> "meta", key, content]      <meta property|name="og:title">   *)
(*   [tag |-> "script", text]            inline text                       *)
(* Every text is one text node.  The raw text of a page is its             *)
(* serialization, so the soup and the text fetch returns agree.            *)

Open(name) == <<"<", name>>

Close(name) == <<"<", "/", name, ">">>

Attr(name, value) == <<" ", name, "=", "\"">> \o value \o <<"\"">>

\* str(element): the markup of one element.
Markup(e) ==
    CASE e.tag = "a" ->
           Open("a") \o Attr("href", e.href) \o <<">">> \o e.text \o Close("a")
      [] e.tag \in {"source", "iframe"} ->
           Open(e.tag) \o Attr("src", e.src)
             \o (IF e.title # <<>> THEN Attr("title", e.title) ELSE <<>>)
             \o <<">">> \o Close(e.tag)
      [] e.tag = "meta" ->
           Open("meta") \o Attr(e.key, <<"og:title">>) \o Attr("content", e.content)
             \o <<">">>
      [] OTHER -> Open(e.tag) \o <<">">> \o e.text \o Close(e.tag)

\* r.text of a response whose document is page.
RECURSIVE Serialize(_)
Serialize(page) ==
    IF Len(page) = 0 THEN <<>> ELSE Markup(Head(page)) \o Serialize(Tail(page))

\* soup.find_all(tags): the elements with one of the tags, in document order.
find_all(soup, tags) == SelectSeq(soup, LAMBDA e : e.tag \in tags)

\* soup.find(tag): the first such element, or None.
find(soup, tags) ==
    LET es == find_all(soup, tags) IN IF Len(es) = 0 THEN NoTag ELSE es[1]

\* soup.find("meta", property="og:title") or soup.find("meta", attrs={"name": "og:title"})
find_og(soup) ==
    LET byProp == SelectSeq(soup, LAMBDA e : e.tag = "meta" /\ e.key = "property")
        byName == SelectSeq(soup, LAMBDA e : e.tag = "meta" /\ e.key = "name")
    IN  IF Len(byProp) > 0 THEN byProp[1]
        ELSE IF Len(byName) > 0 THEN byName[1] ELSE NoTag

\* element.get_text(strip=True) of an element with one text node.
get_text(e) == Strip(e.text)

-----------------------------------------------------------------------------
(* derive_title_from_page                                                  *)

\* Lines 120-125: the title the last path segment of the URL gives.
slug_title(path) ==
    IF path = <<>> THEN <<>>
    ELSE clean_event_title(Replace(SplitOn(path, "/")[Len(SplitOn(path, "/"))],
                                   <<"-">>, <<" ">>))

\* Lines 108-125, given the elements the three finds returned.
title_from(h1, og, ttl, fallback_url) ==
    IF h1 # NoTag /\ Truthy(get_text(h1)) THEN clean_event_title(get_text(h1))
    ELSE IF og # NoTag /\ Truthy(og.content) THEN clean_event_title(og.content)
    ELSE IF ttl # NoTag /\ Truthy(get_text(ttl)) THEN clean_event_title(get_text(ttl))
    ELSE IF Truthy(fallback_url)
         THEN slug_title(RStripChars(UrlPath(fallback_url), {"/"}))
    ELSE <<>>

derive_title_from_page(soup, fallback_url) ==
    IF soup = NoSoup THEN <<>>
    ELSE title_from(find(soup, {"h1"}), find_og(soup), find(soup, {"title"}), fallback_url)

-----------------------------------------------------------------------------
(* The constants of the program.                                           *)

BASE_URL == <<"http", "s", ":", "/", "/", "roxie", "/">>

CATEGORIES ==
    << <<>>, <<"soccer">>, <<"mlb">>, <<"nba">>, <<"nfl">>, <<"nhl">>,
       <<"fighting">>, <<"motorsports">>, <<"motogp">>, <<"ufc">>, <<"ppv">>,
       <<"wwe", "-", "streams">>, <<"f1">>, <<"f1", "-", "streams">>, <<"nascar">> >>

\* TV_INFO: the table's keys in insertion order, and key -> <<tvg_id, logo, group>>.
TV_INFO_keys ==
    << <<"soccer">>, <<"mlb">>, <<"nba">>, <<"nfl">>, <<"nhl">>, <<"fighting">>,
       <<"motorsports">>, <<"ufc">>, <<"ppv">>, <<"wwe", "-", "streams">>, <<"f1">>,
       <<"f1", "-", "streams">>, <<"nascar">>, <<"misc">> >>

TV_INFO(k) ==
    CASE k = <<"soccer">> -> <<"Soccer.Dummy.us", "Soccer.png", "Soccer">>
      [] k = <<"mlb">> -> <<"MLB.Baseball.Dummy.us", "Baseball3.png", "MLB">>
      [] k = <<"nba">> -> <<"NBA.Basketball.Dummy.us", "Basketball-2.png", "NBA">>
      [] k = <<"nfl">> -> <<"Football.Dummy.us", "Maxx.png", "NFL">>
      [] k = <<"nhl">> -> <<"NHL.Hockey.Dummy.us", "nhl-logo-png-seeklogo-534236.png", "NHL">>
      [] k = <<"fighting">> -> <<"PPV.EVENTS.Dummy.us", "Combat-Sports.png", "Combat Sports">>
      [] k = <<"motorsports">> -> <<"Racing.Dummy.us", "F1.png", "Motorsports">>
      [] k = <<"ufc">> -> <<"UFC.Fight.Pass.Dummy.us", "Combat-Sports2.png", "UFC">>
      [] k = <<"ppv">> -> <<"PPV.EVENTS.Dummy.us", "PPV.png", "PPV">>
      [] k = <<"wwe", "-", "streams">> -> <<"PPV.EVENTS.Dummy.us", "WWE2.png", "WWE">>
      [] k = <<"f1">> -> <<"Racing.Dummy.us", "F1.png", "Formula 1">>
      [] k = <<"f1", "-", "streams">> -> <<"Racing.Dummy.us", "F1.png", "Formula 1">>
      [] k = <<"nascar">> -> <<"Racing.Dummy.us", "Motorsports2.png", "NASCAR Cup Series">>
      [] k = <<"misc">> -> <<"Sports.Dummy.us", "247.png", "Random Events">>

\* str.lower() and str.title() on the tokens category keys are made of.
LowerSeq(s) ==
    [k \in 1..Len(s) |->
        CASE s[k] = "NFL" -> "nfl"
          [] s[k] = "Streams" -> "streams"
          [] s[k] = "F1" -> "f1"
          [] OTHER -> s[k]]

title(s) ==
    [k \in 1..Len(s) |->
        CASE s[k] = "soccer" -> "Soccer"     [] s[k] = "mlb" -> "Mlb"
          [] s[k] = "nba" -> "Nba"           [] s[k] = "nfl" -> "Nfl"
          [] s[k] = "nhl" -> "Nhl"           [] s[k] = "fighting" -> "Fighting"
          [] s[k] = "motorsports" -> "Motorsports"
          [] s[k] = "motogp" -> "Motogp"     [] s[k] = "ufc" -> "Ufc"
          [] s[k] = "ppv" -> "Ppv"           [] s[k] = "wwe" -> "Wwe"
          [] s[k] = "streams" -> "Streams"   [] s[k] = "f1" -> "F1"
          [] s[k] = "nascar" -> "Nascar"     [] s[k] = "misc" -> "Misc"
          [] OTHER -> s[k]]

-----------------------------------------------------------------------------
(* get_tv_data_for_category                                                *)

\* Lines 286-292: the lookup of the normalized key.
lookup_key(key) ==
    IF \E i \in DOMAIN TV_INFO_keys : TV_INFO_keys[i] = key THEN TV_INFO(key)
    ELSE IF \E i \in DOMAIN TV_INFO_keys : Contains(key, TV_INFO_keys[i])
         THEN TV_INFO(TV_INFO_keys[MinOf({i \in DOMAIN TV_INFO_keys :
                                            Contains(key, TV_INFO_keys[i])})])
    ELSE TV_INFO(<<"misc">>)

\* Lines 282-284: the key, lower-cased, stripped, its "-streams" and "streams"
\* removed.
normalize_key(cat_path) ==
    Replace(Replace(Strip(LowerSeq(Or(cat_path, <<"misc">>))),
                    <<"-", "streams">>, <<>>),
            <<"streams">>, <<>>)

get_tv_data_for_category(cat_path) == lookup_key(normalize_key(cat_path))

-----------------------------------------------------------------------------
(* get_category_event_candidates, after the fetch.                         *)

\* Tokens whose lower-cased spelling holds one of the keywords "stream",
\* "streams", "match", "game", "event".
\* re.search(r"-\d+$", low)
EndsInDashDigits(low) ==
    \E i \in 1..(Len(low) - 1) :
        low[i] = "-" /\ \A k \in (i + 1)..Len(low) : low[k] \in {"1", "2", "3", "4"}

\* Line 262: an empty href, a mailto: or a javascript: link is skipped.
skip_href(href) ==
    \/ ~Truthy(href)
    \/ StartsWith(href, <<"mailto", ":">>)
    \/ StartsWith(href, <<"javascript", ":">>)

\* Line 267: the href looks like an event page or a manifest.
looks_like_event(href) ==
    \/ Contains(href, <<".m3u8">>)
    \/ \E i \in 1..Len(href) : href[i] \in {"streams", "Streams", "Stream", "Roxiestreams",
                                          "ROXIESTREAMS", "match", "game", "event"}
    \/ EndsInDashDigits(LowerSeq(href))

\* Line 264.
full_url(cat_url, href) ==
    IF StartsWith(href, <<"http">>) THEN href ELSE urljoin(cat_url, href)

\* Lines 268-270.
add_candidate(acc, text, full) ==
    IF full \in acc.seen THEN acc
    ELSE [candidates |-> Append(acc.candidates, <<Strip(text), full>>),
          seen       |-> acc.seen \cup {full}]

\* Lines 259-270: one anchor, href being its stripped href attribute.
candidate_anchor(a, href, cat_url, acc) ==
    IF skip_href(href) \/ ~looks_like_event(href) THEN acc
    ELSE add_candidate(acc, Strip(a.text), full_url(cat_url, href))

\* The anchor loop (lines 258-270): acc.candidates and acc.seen after it.
RECURSIVE candidate_anchors(_, _, _)
candidate_anchors(anchors, cat_url, acc) ==
    IF Len(anchors) = 0 THEN acc
    ELSE candidate_anchors(Tail(anchors), cat_url,
             candidate_anchor(Head(anchors), Strip(Head(anchors).href), cat_url, acc))

\* The raw-text fallback (lines 272-277).
add_match(acc, m) ==
    IF Truthy(m) /\ m \notin acc.seen
    THEN [candidates |-> Append(acc.candidates, <<<<>>, m>>),
          seen       |-> acc.seen \cup {m}]
    ELSE acc

RECURSIVE candidate_matches(_, _)
candidate_matches(ms, acc) ==
    IF Len(ms) = 0 THEN acc
    ELSE candidate_matches(Tail(ms), add_match(acc, Head(ms)))

category_url(category_path) ==
    IF ~Truthy(category_path) THEN BASE_URL ELSE urljoin(BASE_URL, category_path)

\* Lines 272-279: the anchors' candidates, or the raw-text matches when the
\* anchors gave none.
candidates_or_matches(acc, html_text) ==
    IF acc.candidates = <<>>
    THEN candidate_matches(M3U8_RE_findall(html_text), acc).candidates
    ELSE acc.candidates

\* What get_category_event_candidates returns when fetch returned (soup, html_text);
\* a failed fetch is (NoSoup, <<>>).
get_category_event_candidates(category_path, soup, html_text) ==
    IF soup = NoSoup /\ ~Truthy(html_text) THEN <<>>
    ELSE candidates_or_matches(
             candidate_anchors(find_all(soup, {"a"}), category_url(category_path),
                               [candidates |-> <<>>, seen |-> {}]),
             html_text)

-----------------------------------------------------------------------------
(* get_event_m3u8: the scans of a fetched document.                        *)

\* One found manifest: results gains (title, cand) unless cand was seen.
Found(acc, cand, raw_title, cleaned) ==
    IF Truthy(cand) /\ cand \notin acc.seen
    THEN [acc EXCEPT !.results = Append(acc.results,
                             <<IF cleaned THEN clean_event_title(raw_title) ELSE raw_title,
                               cand>>),
                     !.seen    = acc.seen \cup {cand}]
    ELSE acc

\* The title of a found manifest: the element's own, else base_title, else
\* the URL; cleaned.
FoundTitled(acc, cand, own_title, base_title) ==
    Found(acc, cand, Or(own_title, Or(base_title, cand)), TRUE)

\* Lines 163-165: cand.strip(), then the protocol-relative fix.
fix_candidate(cand) ==
    IF ~Truthy(cand) THEN cand
    ELSE IF StartsWith(Strip(cand), <<"/", "/">>)
         THEN <<"http", "s", ":">> \o Strip(cand)
         ELSE Strip(cand)

\* Line 161: the manifest of the href, else of the anchor's markup.
event_anchor_candidate(a, event_url) ==
    fix_candidate(Or(extract_m3u8_from_text(Strip(a.href), event_url),
                     extract_m3u8_from_text(Markup(a), event_url)))

\* Lines 158-170: the anchors of the event page.
RECURSIVE scan_event_anchors(_, _, _, _)
scan_event_anchors(anchors, event_url, base_title, acc) ==
    IF Len(anchors) = 0 THEN acc
    ELSE scan_event_anchors(Tail(anchors), event_url, base_title,
             FoundTitled(acc, event_anchor_candidate(Head(anchors), event_url),
                         get_text(Head(anchors)), base_title))

\* Lines 197-203: the anchors of an iframe document.
RECURSIVE scan_iframe_anchors(_, _, _, _)
scan_iframe_anchors(anchors, iframe_url, base_title, acc) ==
    IF Len(anchors) = 0 THEN acc
    ELSE scan_iframe_anchors(Tail(anchors), iframe_url, base_title,
             FoundTitled(acc, extract_m3u8_from_text(Head(anchors).href, iframe_url),
                         get_text(Head(anchors)), base_title))

\* Lines 173-180 and 204-210: source and video elements (the model's carry a
\* title attribute and no alt); the event page's src is stripped first.
RECURSIVE scan_media(_, _, _, _, _)
scan_media(tags, base, base_title, strip, acc) ==
    IF Len(tags) = 0 THEN acc
    ELSE scan_media(Tail(tags), base, base_title, strip,
             FoundTitled(acc,
                         extract_m3u8_from_text(IF strip THEN Strip(Head(tags).src)
                                                ELSE Head(tags).src, base),
                         Head(tags).title, base_title))

\* Lines 151-153: the cleaned anchor text, else the title the page gives.
base_title_of(cleaned, soup, event_url) ==
    IF ~Truthy(cleaned) THEN derive_title_from_page(soup, event_url) ELSE cleaned

\* Lines 155-180: the anchors, then the media elements, of the event page.
scan_with_title(soup, event_url, base_title) ==
    scan_media(find_all(soup, {"source"}), event_url, base_title, TRUE,
        scan_event_anchors(find_all(soup, {"a"}), event_url, base_title,
                           [results |-> <<>>, seen |-> {}, base_title |-> base_title]))

\* Lines 151-180: after the event page was fetched.  The accumulator carries
\* base_title along with results and seen.
scan_event_page(soup, event_url, anchor_text) ==
    scan_with_title(soup, event_url,
        base_title_of(IF Truthy(anchor_text) THEN clean_event_title(anchor_text) ELSE <<>>,
                      soup, event_url))

\* Lines 196-210: the anchors, then the media elements, of the iframe document.
scan_iframe_document(soup_if, iframe_url, base_title, acc) ==
    IF soup_if = NoSoup THEN acc
    ELSE scan_media(find_all(soup_if, {"source"}), iframe_url, base_title, FALSE,
             scan_iframe_anchors(find_all(soup_if, {"a"}), iframe_url, base_title, acc))

\* Lines 188-210: one iframe whose fetch returned (soup_if, html_if).
scan_iframe(iframe, iframe_url, soup_if, html_if, base_title, acc) ==
    IF ~Truthy(html_if) THEN acc
    ELSE scan_iframe_document(soup_if, iframe_url, base_title,
             FoundTitled(acc, extract_m3u8_from_text(html_if, iframe_url),
                         iframe.title, base_title))

\* Lines 224-228: strip, the protocol-relative fix, the join to the event URL.
normalize_url(u, event_url) ==
    IF StartsWith(Strip(u), <<"/", "/">>)
    THEN resolve_against(<<"http", "s", ":">> \o Strip(u), event_url)
    ELSE IF UrlScheme(Strip(u)) = <<>> THEN urljoin(event_url, Strip(u))
    ELSE Strip(u)

\* Lines 233-236: the cleaned title, else the page's, else the URL.
final_title(cleaned, soup, event_url, u) ==
    IF ~Truthy(cleaned) THEN Or(derive_title_from_page(soup, event_url), u) ELSE cleaned

\* Lines 221-237: one (t, u0) of results, u being u0 normalized; the pair
\* <<final, final_seen>> after it.
normalize_one(t, u0, u, soup, event_url, st) ==
    IF ~Truthy(u0) \/ u \in st[2] THEN st
    ELSE << Append(st[1], <<final_title(clean_event_title(t), soup, event_url, u), u>>),
            st[2] \cup {u} >>

\* Lines 219-238: the final normalization of the accumulated results.
RECURSIVE normalize_results(_, _, _, _)
normalize_results(results, soup, event_url, st) ==
    IF Len(results) = 0 THEN st[1]
    ELSE normalize_results(Tail(results), soup, event_url,
             normalize_one(Head(results)[1], Head(results)[2],
                           normalize_url(Head(results)[2], event_url),
                           soup, event_url, st))

\* Lines 213-216: the whole-page search.
whole_page(acc, cand, base_title) == Found(acc, cand, Or(base_title, cand), FALSE)

\* Lines 212-238: the whole-page search, then the normalization.
finish_event(soup, html_text, event_url, base_title, acc) ==
    normalize_results(
        whole_page(acc, extract_m3u8_from_text(html_text, event_url), base_title).results,
        soup, event_url, << <<>>, {} >>)

\* Line 137.
event_url_of(event_href) ==
    IF StartsWith(event_href, <<"http">>) THEN event_href ELSE urljoin(BASE_URL, event_href)

\* Line 140: the manifest the href itself holds, or None.
direct_of(event_href) == extract_m3u8_from_text(event_href, event_url_of(event_href))

\* Lines 141-143: what the fast path returns when direct_of is not None.
fast_path(event_url, anchor_text, direct) ==
    <<<<clean_event_title(Or(anchor_text,
          Or(derive_title_from_page(NoSoup, event_url), direct))), direct>>>>

direct_result(event_href, anchor_text) ==
    fast_path(event_url_of(event_href), anchor_text, direct_of(event_href))

\* The src attributes get_event_m3u8 fetches: those of the iframe elements of
\* the event page (line 183).
iframes_of(soup) == find_all(soup, {"iframe"})

-----------------------------------------------------------------------------
(* main: what one candidate adds to all_streams and seen_urls.             *)

StreamRecord(cat, ttl, url) ==
    [category    |-> Or(cat, <<"misc">>),
     displayName |-> title(Or(cat, <<"Roxiestreams">>)) \o <<" ", "-", " ">> \o ttl,
     manifestUrl |-> url]

\* The state main accumulates is st = [all_streams, seen_urls, encountered];
\* encountered is a history variable, not program state: every record that
\* reached the seen_urls test, kept or not, with the path that produced it.
Encounter(st, via, rec) == Append(st.encountered, [via |-> via, rec |-> rec])

\* A variant of keep_unseen without the seen_urls test.
keep_every(st, via, rec) ==
    [all_streams |-> Append(st.all_streams, rec),
     seen_urls   |-> st.seen_urls \cup {rec.manifestUrl},
     encountered |-> Encounter(st, via, rec)]

\* Lines 331-335 and 344-353: the record is kept unless its URL is in
\* seen_urls.
keep_unseen(st, via, rec) ==
    IF rec.manifestUrl \in st.seen_urls
    THEN [st EXCEPT !.encountered = Encounter(st, via, rec)]
    ELSE [all_streams |-> Append(st.all_streams, rec),
          seen_urls   |-> st.seen_urls \cup {rec.manifestUrl},
          encountered |-> Encounter(st, via, rec)]

\* Line 333.
direct_title(anchor_text, href, clean) ==
    Or(clean_event_title(anchor_text), Or(derive_title_from_page(NoSoup, href), clean))

\* Lines 331-335, clean being the manifest URL of line 330.
main_direct_clean(cat, anchor_text, href, clean, st) ==
    IF ~Truthy(clean) THEN st
    ELSE keep_unseen(st, "direct", StreamRecord(cat, direct_title(anchor_text, href, clean), clean))

\* Lines 329-336: a candidate whose href contains ".m3u8".
main_direct(cat, anchor_text, href, st) ==
    main_direct_clean(cat, anchor_text, href,
                      Or(extract_m3u8_from_text(href, href), href), st)

\* Lines 350-351.
found_title(ev_title, anchor_text, href, clean) ==
    clean_event_title(Or(ev_title, Or(anchor_text,
        Or(derive_title_from_page(NoSoup, href), clean))))

\* Lines 344-353, clean being the manifest URL of line 343.
main_found_clean(cat, anchor_text, href, ev_title, clean, st) ==
    IF ~Truthy(clean) THEN st
    ELSE keep_unseen(st, "resolver",
                     StreamRecord(cat, found_title(ev_title, anchor_text, href, clean), clean))

\* Lines 341-353: one (ev_title, ev_url) of found.
main_found_one(cat, anchor_text, href, ev_title, ev_url, st) ==
    IF ~Truthy(ev_url) \/ ~Contains(ev_url, <<".m3u8">>) THEN st
    ELSE main_found_clean(cat, anchor_text, href, ev_title,
                          Or(extract_m3u8_from_text(ev_url, href), ev_url), st)

\* Lines 340-353: the loop over found.
RECURSIVE main_found(_, _, _, _, _)
main_found(cat, anchor_text, href, found, st) ==
    IF Len(found) = 0 THEN st
    ELSE main_found(cat, anchor_text, href, Tail(found),
                    main_found_one(cat, anchor_text, href, Head(found)[1], Head(found)[2], st))

-----------------------------------------------------------------------------
(* write_playlists                                                         *)

Header == <<"#EXTM3U", "# Last Updated">>

InfoLine(rec) ==
    LET tv == get_tv_data_for_category(rec.category)
    IN  [logo |-> tv[2], tvg_id |-> tv[1], group |-> tv[3], name |-> rec.displayName]

\* Lines 299-304 and 308-313: the header, then two lines per stream.
RECURSIVE playlist_lines(_, _)
playlist_lines(streams, tivimate) ==
    IF Len(streams) = 0 THEN <<>>
    ELSE LET rec == Head(streams)
             url == IF tivimate
                    THEN rec.manifestUrl \o <<"|", "referer=">> \o BASE_URL
                           \o <<"|", "user-agent=", "Mozilla">>
                    ELSE rec.manifestUrl
         IN  <<InfoLine(rec), url>> \o playlist_lines(Tail(streams), tivimate)

write_playlists(streams) ==
    [Roxiestreams_VLC      |-> Header \o playlist_lines(streams, FALSE),
     Roxiestreams_TiviMate |-> Header \o playlist_lines(streams, TRUE)]

-----------------------------------------------------------------------------
(* The site: what a fetch of each URL may return.  A fetch fails, or       *)
(* returns one of the documents the URL can serve.                         *)

\* The number of iframes the event page embeds.
MaxIframes == 2

Digit(i) == <<"1", "2", "3", "4">>[i]

Cdn(x) == <<"http", "s", ":", "/", "/", "cdn", "/">> \o x \o <<".m3u8">>

A(href, text) == [tag |-> "a", href |-> href, text |-> text]

Source(src, ttl) == [tag |-> "source", src |-> src, title |-> ttl]

Iframe(src, ttl) == [tag |-> "iframe", src |-> src, title |-> ttl]

Script(text) == [tag |-> "script", text |-> text]

EventHref(i) == <<"/", "ev", "/", "game", "-", Digit(i)>>

IframeSrc(i) == <<"/", "if", "/", Digit(i)>>

NestedSrc(i) == <<"/", "nest", "/", Digit(i)>>

\* The manifest only the nested document of iframe i names.
NestedManifest(i) == Cdn(<<"nest", Digit(i)>>)

Scenario1Href == <<"/", "live", "/", "1", "2", "3", "-", "match", ".m3u8">>

RootPages ==
    { << A(Scenario1Href, <<>>),
         A(EventHref(1), <<"a", " ", "-", " ", "Watch">>) >>,
      << A(<<"mailto", ":", "x">>, <<"a">>),
         A(<<"/", "about">>, <<"a">>),
         Script(<<"x", "=", "\"">> \o Cdn(<<"a">>) \o <<"\"", " ", "\"">>
                  \o Cdn(<<"b">>) \o <<"?", "q", "\"">>) >> }

SoccerPages ==
    { << A(BASE_URL \o Tail(EventHref(1)), <<"b">>),
         A(<<"http", "s", ":", "/", "/", "cdn", "/", "game", ".M3U8">>, <<"a">>),
         A(Cdn(<<"a">>), <<"b", " ", "|", " ", "x">>),
         A(Cdn(<<"a">>), <<"x">>) >> }

NflPages == { << A(EventHref(2), <<>>) >> }

WwePages == { << A(<<"http", "-", "streams", "/", "a", ".m3u8">>, <<"a">>) >> }

EventPages(i) ==
    IF i = 1
    THEN { << [tag |-> "h1", text |-> <<"h", " ", "-", " ", "Roxiestreams">>],
              A(Cdn(<<"a">>), <<>>),
              Source(<<" ">> \o Cdn(<<"b">>), <<>>) >>
             \o [k \in 1..MaxIframes |-> Iframe(IframeSrc(k), <<>>)]
             \o << Script(<<"x", "=", "'">> \o Cdn(<<"x">>) \o <<"'">>) >>,
           << >> }
    ELSE { << A(Cdn(<<"q">>), <<"&", "amp;", "amp;", "#45;">>),
              [tag |-> "title", text |-> <<"-">>] >> }

IframePages(i) ==
    { << Script(<<"src", "=", "\"">> \o Cdn(<<"if", Digit(i)>>) \o <<"\"">>),
         Iframe(NestedSrc(i), <<>>),
         A(Cdn(<<"a">>), <<"b">>) >>,
      << >> }

NestedPages(i) == { << Script(<<"\"">> \o NestedManifest(i) \o <<"\"">>) >> }

Pages(url) ==
    IF url = BASE_URL THEN RootPages
    ELSE IF url = BASE_URL \o <<"soccer">> THEN SoccerPages
    ELSE IF url = BASE_URL \o <<"nfl">> THEN NflPages
    ELSE IF url = BASE_URL \o <<"wwe", "-", "streams">> THEN WwePages
    ELSE IF \E i \in 1..2 : url = BASE_URL \o Tail(EventHref(i))
         THEN EventPages(CHOOSE i \in 1..2 : url = BASE_URL \o Tail(EventHref(i)))
    ELSE IF \E i \in 1..MaxIframes : url = BASE_URL \o Tail(IframeSrc(i))
         THEN IframePages(CHOOSE i \in 1..MaxIframes : url = BASE_URL \o Tail(IframeSrc(i)))
    ELSE IF \E i \in 1..MaxIframes : url = BASE_URL \o Tail(NestedSrc(i))
         THEN NestedPages(CHOOSE i \in 1..MaxIframes : url = BASE_URL \o Tail(NestedSrc(i)))
    ELSE { << >> }

\* fetch (lines 49-59): (soup, text), or (None, "") on any failure.
FetchFailed == [soup |-> NoSoup, text |-> <<>>]

fetch(url) == {FetchFailed} \cup {[soup |-> p, text |-> Serialize(p)] : p \in Pages(url)}

-----------------------------------------------------------------------------
(* The run of main.                                                        *)

VARIABLES
    pc,           \* where main is: "category", "candidate", "iframes", "write", "done"
    cat_i,        \* index in CATEGORIES of the category of the outer loop
    candidates,   \* the candidates of that category
    cand_i,       \* index in candidates of the candidate of the inner loop
    all_streams,  \* main's all_streams: the StreamRecords kept so far
    seen_urls,    \* main's seen_urls
    fr,           \* the frame of the running get_event_m3u8 call, or Nothing
    files,        \* the two playlist files, Nothing until written
    encountered,  \* history: every record that reached the seen_urls test
    visited,      \* history: the categories whose page fetch was attempted
    last_fetch,   \* history: the fetch of the last step, if it made one
    failed,       \* history: some fetch has failed
    call,         \* the arguments of a function applied on its own, or Nothing
    ret           \* the values it returned

mainVars == <<pc, cat_i, candidates, cand_i, all_streams, seen_urls, fr, files,
              encountered, visited, last_fetch, failed>>

callVars == <<call, ret>>

vars == <<pc, cat_i, candidates, cand_i, all_streams, seen_urls, fr, files,
          encountered, visited, last_fetch, failed, call, ret>>

MainInit ==
    /\ pc = "category"
    /\ cat_i = 1
    /\ candidates = <<>>
    /\ cand_i = 1
    /\ all_streams = <<>>
    /\ seen_urls = {}
    /\ fr = Nothing
    /\ files = Nothing
    /\ encountered = <<>>
    /\ visited = <<>>
    /\ last_fetch = Nothing
    /\ failed = FALSE

Init == MainInit /\ call = Nothing /\ ret = <<>>

St == [all_streams |-> all_streams, seen_urls |-> seen_urls, encountered |-> encountered]

SetSt(st) ==
    /\ all_streams' = st.all_streams
    /\ seen_urls' = st.seen_urls
    /\ encountered' = st.encountered

\* The fetch a step made: its URL, its outcome, and how many records and
\* results there were before it.
Fetched(url, r) ==
    /\ last_fetch' = [url |-> url, ok |-> r # FetchFailed,
                      streams |-> Len(all_streams),
                      results |-> IF fr = Nothing THEN 0 ELSE Len(fr.results)]
    /\ failed' = (failed \/ r = FetchFailed)

NoFetch == last_fetch' = Nothing /\ failed' = failed

\* The for loops of main (lines 320 and 327): after the category's last
\* candidate comes the next category, after the last category line 355.
NextCategory ==
    /\ cat_i' = cat_i + 1
    /\ pc' = IF cat_i < Len(CATEGORIES) THEN "category" ELSE "write"

NextCandidate ==
    /\ cand_i' = cand_i + 1
    /\ IF cand_i < Len(candidates)
       THEN pc' = "candidate" /\ cat_i' = cat_i
       ELSE NextCategory

\* Lines 183-210, one turn of the iframe loop: the iframe's URL is fetched
\* (the fetch returned r) and its document scanned.  frame is the frame of the
\* running get_event_m3u8 call; frame.fetched is a history variable, the URLs
\* the call has fetched, and frame.nested records that a fetched iframe document
\* held an iframe of its own.
iframe_scanned(frame, r, url, acc) ==
    [frame EXCEPT !.iframes = Tail(frame.iframes),
               !.results = acc.results,
               !.seen    = acc.seen,
               !.fetched = Append(frame.fetched, url),
               !.nested  = frame.nested \/ (r.soup # NoSoup /\ iframes_of(r.soup) # <<>>)]

iframe_at(frame, r, url) ==
    iframe_scanned(frame, r, url,
        scan_iframe(Head(frame.iframes), url, r.soup, r.text, frame.base_title,
                    [results |-> frame.results, seen |-> frame.seen]))

\* A variant of iframe_step that follows the iframes of the iframe document
\* one level further, as a resolver without the depth cap would.
iframe_step_deep(frame, r) ==
    LET url    == urljoin(frame.event_url, Strip(Head(frame.iframes).src))
        one    == iframe_at(frame, r, url)
        nested == IF r.soup = NoSoup THEN <<>> ELSE iframes_of(r.soup)
    IN  IF nested = <<>> THEN one
        ELSE LET nurl == urljoin(url, Strip(nested[1].src))
                 page == CHOOSE p \in Pages(nurl) : TRUE
                 acc  == FoundTitled([results |-> one.results, seen |-> one.seen],
                                     extract_m3u8_from_text(Serialize(page), nurl),
                                     <<>>, frame.base_title)
             IN  [one EXCEPT !.results = acc.results,
                             !.seen    = acc.seen,
                             !.fetched = Append(one.fetched, nurl)]

iframe_step(frame, r) == iframe_at(frame, r, urljoin(frame.event_url, Strip(Head(frame.iframes).src)))

\* A variant of CategoryStep in which a failed category fetch ends the loop
\* over the categories.
CategoryStepFatal(r) ==
    /\ candidates' = get_category_event_candidates(CATEGORIES[cat_i], r.soup, r.text)
    /\ cand_i' = 1
    /\ visited' = Append(visited, CATEGORIES[cat_i])
    /\ Fetched(category_url(CATEGORIES[cat_i]), r)
    /\ IF r = FetchFailed THEN pc' = "write" /\ cat_i' = cat_i + 1
       ELSE IF candidates' = <<>> THEN NextCategory
       ELSE pc' = "candidate" /\ cat_i' = cat_i
    /\ UNCHANGED <<all_streams, seen_urls, encountered, fr, files>>

\* Line 322: get_category_event_candidates(cat), its fetch returning r.
CategoryStep(r) ==
    /\ candidates' = get_category_event_candidates(CATEGORIES[cat_i], r.soup, r.text)
    /\ cand_i' = 1
    /\ visited' = Append(visited, CATEGORIES[cat_i])
    /\ Fetched(category_url(CATEGORIES[cat_i]), r)
    /\ IF candidates' = <<>> THEN NextCategory ELSE pc' = "candidate" /\ cat_i' = cat_i
    /\ UNCHANGED <<all_streams, seen_urls, encountered, fr, files>>

CategoryFetched ==
    /\ pc = "category"
    /\ \E r \in fetch(category_url(CATEGORIES[cat_i])) \ {FetchFailed} : CategoryStep(r)
    /\ UNCHANGED callVars

CategoryFetchFailed ==
    /\ pc = "category"
    /\ CategoryStep(FetchFailed)
    /\ UNCHANGED callVars

\* The frame of a get_event_m3u8 call whose event page fetch returned r and
\* whose first two scans gave scan.
new_frame(event_url, r, scan) ==
    [event_url  |-> event_url,
     soup       |-> r.soup,
     html_text  |-> r.text,
     base_title |-> scan.base_title,
     results    |-> scan.results,
     seen       |-> scan.seen,
     iframes    |-> iframes_of(r.soup),
     fetched    |-> <<event_url>>,
     nested     |-> FALSE]

anchor_text == candidates[cand_i][1]

href == candidates[cand_i][2]

\* Lines 329-336.
DirectCandidate ==
    /\ pc = "candidate"
    /\ Contains(href, <<".m3u8">>)
    /\ SetSt(main_direct(CATEGORIES[cat_i], anchor_text, href, St))
    /\ NextCandidate
    /\ NoFetch
    /\ UNCHANGED <<candidates, fr, files, visited>>
    /\ UNCHANGED callVars

\* Lines 339-353 when get_event_m3u8 returns from its fast path (line 143).
ResolveDirect ==
    /\ pc = "candidate"
    /\ ~Contains(href, <<".m3u8">>)
    /\ Truthy(direct_of(href))
    /\ SetSt(main_found(CATEGORIES[cat_i], anchor_text, href,
                        direct_result(href, anchor_text), St))
    /\ NextCandidate
    /\ NoFetch
    /\ UNCHANGED <<candidates, fr, files, visited>>
    /\ UNCHANGED callVars

\* Lines 146-148: the event page fetch fails, get_event_m3u8 returns [].
ResolveFetchFailed ==
    /\ pc = "candidate"
    /\ ~Contains(href, <<".m3u8">>)
    /\ ~Truthy(direct_of(href))
    /\ SetSt(main_found(CATEGORIES[cat_i], anchor_text, href, <<>>, St))
    /\ NextCandidate
    /\ Fetched(event_url_of(href), FetchFailed)
    /\ UNCHANGED <<candidates, fr, files, visited>>
    /\ UNCHANGED callVars

\* Lines 146-180: the event page is fetched and its anchors and media scanned.
ResolveFetched ==
    /\ pc = "candidate"
    /\ ~Contains(href, <<".m3u8">>)
    /\ ~Truthy(direct_of(href))
    /\ \E r \in fetch(event_url_of(href)) \ {FetchFailed} :
         /\ fr' = new_frame(event_url_of(href), r,
                            scan_event_page(r.soup, event_url_of(href), anchor_text))
         /\ Fetched(event_url_of(href), r)
    /\ pc' = "iframes"
    /\ UNCHANGED <<cat_i, candidates, cand_i, all_streams, seen_urls, encountered,
                   files, visited>>
    /\ UNCHANGED callVars

iframe_url == urljoin(fr.event_url, Strip(Head(fr.iframes).src))

\* Lines 183-210, one iframe whose fetch succeeds.
IframeFetched ==
    /\ pc = "iframes"
    /\ fr.iframes # <<>>
    /\ \E r \in fetch(iframe_url) \ {FetchFailed} :
         fr' = iframe_step(fr, r) /\ Fetched(iframe_url, r)
    /\ UNCHANGED <<pc, cat_i, candidates, cand_i, all_streams, seen_urls, encountered,
                   files, visited>>
    /\ UNCHANGED callVars

\* Lines 183-188, one iframe whose fetch fails.
IframeFetchFailed ==
    /\ pc = "iframes"
    /\ fr.iframes # <<>>
    /\ fr' = iframe_step(fr, FetchFailed)
    /\ Fetched(iframe_url, FetchFailed)
    /\ UNCHANGED <<pc, cat_i, candidates, cand_i, all_streams, seen_urls, encountered,
                   files, visited>>
    /\ UNCHANGED callVars

\* Lines 212-238, then lines 340-353: get_event_m3u8 returns found and main
\* takes its records.
ResolveReturn ==
    /\ pc = "iframes"
    /\ fr.iframes = <<>>
    /\ SetSt(main_found(CATEGORIES[cat_i], anchor_text, href,
                        finish_event(fr.soup, fr.html_text, fr.event_url, fr.base_title,
                                     [results |-> fr.results, seen |-> fr.seen]),
                        St))
    /\ fr' = Nothing
    /\ NextCandidate
    /\ NoFetch
    /\ UNCHANGED <<candidates, files, visited>>
    /\ UNCHANGED callVars

\* Lines 355-363.
WritePlaylists ==
    /\ pc = "write"
    /\ files' = write_playlists(all_streams)
    /\ pc' = "done"
    /\ NoFetch
    /\ UNCHANGED <<cat_i, candidates, cand_i, all_streams, seen_urls, fr, encountered,
                   visited>>
    /\ UNCHANGED callVars

Next ==
    \/ CategoryFetched
    \/ CategoryFetchFailed
    \/ DirectCandidate
    \/ ResolveDirect
    \/ ResolveFetchFailed
    \/ ResolveFetched
    \/ IframeFetched
    \/ IframeFetchFailed
    \/ ResolveReturn
    \/ WritePlaylists

Spec == Init /\ [][Next]_vars

-----------------------------------------------------------------------------
(* The pure functions, applied on their own.  call holds the arguments,    *)
(* ret the values returned so far; main does not run.                      *)

\* The longest title clean_event_title is applied to.
MaxTitleLen == 3

RECURSIVE SeqsUpTo(_, _)
SeqsUpTo(S, n) ==
    IF n = 0 THEN {<<>>}
    ELSE SeqsUpTo(S, n - 1)
           \cup {Append(t, c) : t \in {u \in SeqsUpTo(S, n - 1) : Len(u) = n - 1}, c \in S}

\* No title spells the same string as another: "&" is followed by "amp;" or
\* "#45;" only as the entity the two spell together.
Titles ==
    SeqsUpTo({"a", " ", "-", "|", "&", "amp;", "#45;", "Watch", "Live", "Stream", "Roxiestreams"},
             MaxTitleLen)

CleanInit ==
    /\ MainInit
    /\ call \in {[fn |-> "clean_event_title", raw_title |-> x] : x \in Titles}
    /\ ret = <<>>

\* clean_event_title(raw_title)
CleanOnce ==
    /\ ret = <<>>
    /\ ret' = <<clean_event_title(call.raw_title)>>
    /\ UNCHANGED <<call, mainVars>>

\* clean_event_title applied to what it returned.
CleanAgain ==
    /\ Len(ret) = 1
    /\ ret' = Append(ret, clean_event_title(ret[1]))
    /\ UNCHANGED <<call, mainVars>>

NextClean == CleanOnce \/ CleanAgain

SpecClean == CleanInit /\ [][NextClean]_vars

\* Texts that hold one reference to a manifest or to another file: what
\* precedes it, its scheme, its extension, its query, and what follows it.
Reference(scheme, name, ext, query) ==
    scheme \o <<"/", "/", "cdn", "/">> \o name \o ext \o query

ExtractInit ==
    /\ MainInit
    /\ call \in {[fn     |-> "extract_m3u8_from_text",
                  text   |-> pre \o Reference(sch, n, e, q) \o post,
                  base   |-> b,
                  scheme |-> sch,
                  ext    |-> e,
                  ref    |-> Reference(sch, n, e, q)] :
                   pre  \in {<<>>, <<"src", "=", "\"">>, <<"x", " ">>},
                   sch  \in {<<>>, <<"http", ":">>, <<"http", "s", ":">>, <<"HTTP", "S", ":">>},
                   n    \in {<<"a">>, <<"b">>},
                   e    \in {<<".m3u8">>, <<".M3U8">>, <<".mp4">>},
                   q    \in {<<>>, <<"?", "q">>},
                   post \in {<<>>, <<"\"">>, <<" ", "x">>},
                   b    \in {None, BASE_URL}}
    /\ ret = <<>>

\* extract_m3u8_from_text(text, base)
Extract ==
    /\ ret = <<>>
    /\ ret' = <<extract_m3u8_from_text(call.text, call.base)>>
    /\ UNCHANGED <<call, mainVars>>

NextExtract == Extract

SpecExtract == ExtractInit /\ [][NextExtract]_vars

\* Documents with an h1, an og:title and a title whose texts are absent,
\* blank, a separator only, or a word; and no document at all.
ElementTexts == {None, <<" ">>, <<"-">>, <<"a">>}

Document(h1, og, ttl) ==
    (IF h1 = None THEN <<>> ELSE <<[tag |-> "h1", text |-> h1]>>)
      \o (IF og = None THEN <<>>
          ELSE <<[tag |-> "meta", key |-> "property", content |-> og]>>)
      \o (IF ttl = None THEN <<>> ELSE <<[tag |-> "title", text |-> ttl]>>)

DeriveInit ==
    /\ MainInit
    /\ call \in {[fn |-> "derive_title_from_page", soup |-> d, fallback_url |-> u] :
                   d \in {NoSoup} \cup {Document(h1, og, ttl) :
                                          h1 \in ElementTexts, og \in ElementTexts,
                                          ttl \in ElementTexts},
                   u \in {None, BASE_URL, BASE_URL \o Tail(EventHref(1))}}
    /\ ret = <<>>

\* derive_title_from_page(soup, fallback_url)
Derive ==
    /\ ret = <<>>
    /\ ret' = <<derive_title_from_page(call.soup, call.fallback_url)>>
    /\ UNCHANGED <<call, mainVars>>

NextDerive == Derive

SpecDerive == DeriveInit /\ [][NextDerive]_vars

\* Category keys: the categories and the table's keys, as they are, with
\* "streams" or "-streams" appended, and with a leading blank.
MetaInit ==
    LET keys == {CATEGORIES[i] : i \in DOMAIN CATEGORIES}
                  \cup {TV_INFO_keys[i] : i \in DOMAIN TV_INFO_keys}
        all  == keys \cup {k \o <<"streams">> : k \in keys}
                     \cup {k \o <<"-", "streams">> : k \in keys}
                     \cup {<<" ">> \o k : k \in keys}
    IN  /\ MainInit
        /\ call \in {[fn |-> "get_tv_data_for_category", cat_path |-> k] : k \in all}
        /\ ret = <<>>

\* get_tv_data_for_category(cat_path)
Lookup ==
    /\ ret = <<>>
    /\ ret' = <<get_tv_data_for_category(call.cat_path)>>
    /\ UNCHANGED <<call, mainVars>>

NextMeta == Lookup

SpecMeta == MetaInit /\ [][NextMeta]_vars

-----------------------------------------------------------------------------
(* Properties of the run of main.                                          *)

ManifestUrls == {all_streams[k].manifestUrl : k \in DOMAIN all_streams}

\* The records main met first for each manifest URL, in the order it met them.
FirstEncounters ==
    LET first == {k \in DOMAIN encountered :
                    \A m \in 1..(k - 1) :
                        encountered[m].rec.manifestUrl # encountered[k].rec.manifestUrl}
        kept  == AtIndices(encountered, first)
    IN  [k \in DOMAIN kept |-> kept[k].rec]

\* C1: at every point of the run no two records of all_streams have the same
\* manifestUrl, whichever path produced them, and all_streams is exactly the
\* first record encountered for each manifest URL, in category-list order
\* then discovery order: a later candidate with a URL already kept changes
\* neither the category nor the title of the record kept.
GlobalDedup ==
    /\ \A i, j \in DOMAIN all_streams :
         all_streams[i].manifestUrl = all_streams[j].manifestUrl => i = j
    /\ all_streams = FirstEncounters
    /\ seen_urls = ManifestUrls

\* The run is over and one manifest URL was reached twice, by the direct path
\* and by the resolver, from two categories and under two names.
DedupAcrossPaths ==
    /\ pc = "done"
    /\ \E i, j \in DOMAIN encountered :
         /\ i < j
         /\ encountered[i].rec.manifestUrl = encountered[j].rec.manifestUrl
         /\ encountered[i].via # encountered[j].via
         /\ encountered[i].rec.category # encountered[j].rec.category
         /\ encountered[i].rec.displayName # encountered[j].rec.displayName

IsPrefix(s, t) == Len(s) <= Len(t) /\ SubSeq(t, 1, Len(s)) = s

HeaderThen(lines, n) == Len(lines) = Len(Header) + 2 * n /\ IsPrefix(Header, lines)

\* Whatever fetches fail, the categories are visited in the order of the
\* list and all of them before the files are written; the loop over the
\* candidates of a category leaves none out; a failed fetch adds no record
\* and no result; the files written are the header followed by two lines per
\* record kept.
FetchFailureSafe ==
    /\ pc \in {"category", "candidate", "iframes", "write", "done"}
    /\ pc = "iframes" <=> fr # Nothing
    /\ IsPrefix(visited, CATEGORIES)
    /\ pc = "category" => cat_i <= Len(CATEGORIES) /\ Len(visited) = cat_i - 1
    /\ pc \in {"candidate", "iframes"} =>
         Len(visited) = cat_i /\ cand_i \in 1..Len(candidates)
    /\ (pc \in {"category", "write", "done"} /\ visited # <<>>) =>
         cand_i = Len(candidates) + 1
    /\ pc \in {"write", "done"} => visited = CATEGORIES
    /\ (last_fetch # Nothing /\ ~last_fetch.ok) =>
         /\ Len(all_streams) = last_fetch.streams
         /\ fr # Nothing => Len(fr.results) = last_fetch.results
    /\ pc # "done" => files = Nothing
    /\ pc = "done" =>
         /\ files # Nothing
         /\ HeaderThen(files.Roxiestreams_VLC, Len(all_streams))
         /\ HeaderThen(files.Roxiestreams_TiviMate, Len(all_streams))

\* Where main is: the category, whether its candidates are being processed,
\* the candidate, and how far the resolve call of that candidate has come.
Position ==
    << cat_i,
       IF pc \in {"category", "write"} THEN 0 ELSE 1,
       IF pc \in {"category", "write", "done"} THEN 0 ELSE cand_i,
       IF fr = Nothing THEN 0 ELSE Len(fr.fetched) >>

Before(p, q) ==
    \E k \in DOMAIN p : p[k] < q[k] /\ \A j \in 1..(k - 1) : p[j] = q[j]

\* Every step moves main forward, in the order of its loops; a step whose
\* fetch failed does so like any other.
Advances == Before(Position, Position')

\* C2: no fetch failure is fatal.  Under every assignment of success or
\* failure to the fetches the run stays within FetchFailureSafe (every
\* category visited in order, every candidate processed, a failed fetch
\* contributing nothing, both files written at the end) and every step
\* advances towards the end of the category list, so the run reaches the
\* point where the files are written.
NoFetchFailureFatal == []FetchFailureSafe /\ [][Advances]_vars

\* The run is over, both files are written and hold records, and a fetch
\* failed on the way.
FinishedDespiteFailure ==
    /\ pc = "done"
    /\ failed
    /\ files # Nothing
    /\ Len(all_streams) > 1
    /\ Len(files.Roxiestreams_VLC) > Len(Header)

IframeUrls(frame) ==
    {urljoin(frame.event_url, Strip(frame.soup[k].src)) :
        k \in {n \in DOMAIN frame.soup : frame.soup[n].tag = "iframe"}}

NestedManifests == {NestedManifest(i) : i \in 1..MaxIframes}

\* C3: a resolve call fetches the event page and the pages the iframes of
\* the event page name, and no other; the manifest only a nested iframe's
\* page names is in no result of the call and in no record.
IframeOneLevel ==
    /\ fr # Nothing =>
         /\ \A k \in DOMAIN fr.fetched :
              fr.fetched[k] = fr.event_url \/ fr.fetched[k] \in IframeUrls(fr)
         /\ \A k \in DOMAIN fr.results : fr.results[k][2] \notin NestedManifests
    /\ ManifestUrls \cap NestedManifests = {}

\* Every iframe of the event page was fetched, and a fetched iframe document
\* held an iframe of its own.
NestedIframeSeen ==
    /\ fr # Nothing
    /\ fr.nested
    /\ fr.iframes = <<>>
    /\ Len(fr.fetched) = MaxIframes + 1

\* An absolute URL whose path ends in ".m3u8".
IsManifestUrl(u) ==
    /\ UrlScheme(u) # <<>>
    /\ urlsplit(u, <<>>).netloc # <<>>
    /\ UrlPath(u) # <<>>
    /\ Fold(UrlPath(u)[Len(UrlPath(u))]) = ".m3u8"

\* C4: the manifestUrl of every record is an absolute, scheme-qualified URL
\* whose path ends in .m3u8 (a query may follow).
ManifestUrlsAbsolute == \A k \in DOMAIN all_streams : IsManifestUrl(all_streams[k].manifestUrl)

\* What displayName puts before the event title.
DisplayPrefix(rec) ==
    title(IF rec.category = <<"misc">> THEN <<"Roxiestreams">> ELSE rec.category)
      \o <<" ", "-", " ">>

\* C5: in every record the event title that follows "{Category} - " in
\* displayName is not empty.
TitlesNonEmpty ==
    \A k \in DOMAIN all_streams :
        Len(all_streams[k].displayName) > Len(DisplayPrefix(all_streams[k]))

Scenario1Url == BASE_URL \o Tail(Scenario1Href)

\* The last path segment of Scenario1Href, its hyphens replaced by spaces.
Scenario1Slug == <<"1", "2", "3", " ", "match", ".m3u8">>

\* C9: once the anchor with the relative manifest href and no text has been
\* taken from the category page, all_streams holds exactly one record for
\* it; its manifestUrl is the absolute form of the href and its title is the
\* URL slug, not the whole URL.
Scenario1 ==
    (\E k \in DOMAIN encountered : encountered[k].rec.manifestUrl = Scenario1Url) =>
        /\ Cardinality({k \in DOMAIN all_streams :
                          all_streams[k].manifestUrl = Scenario1Url}) = 1
        /\ \A k \in DOMAIN all_streams :
             all_streams[k].manifestUrl = Scenario1Url =>
                all_streams[k].displayName
                  = title(<<"Roxiestreams">>) \o <<" ", "-", " ">> \o Scenario1Slug

-----------------------------------------------------------------------------
(* Properties of the pure functions.                                       *)

\* C6: clean_event_title applied to what it returned returns it unchanged.
CleanIdempotent == Len(ret) = 2 => ret[2] = ret[1]

\* C7: for a text whose manifest reference is protocol-relative,
\* extract_m3u8_from_text returns the reference with "https:" put before it.
ExtractProtocolRelative ==
    (ret # <<>> /\ call.scheme = <<>> /\ call.ext = <<".m3u8">>) =>
        ret[1] = <<"http", "s", ":">> \o call.ref

\* The four steps of the fallback chain, each cleaned: h1, og:title, title,
\* URL slug.
ChainSteps(soup, fallback_url) ==
    << IF soup # NoSoup /\ find(soup, {"h1"}) # NoTag
       THEN clean_event_title(get_text(find(soup, {"h1"}))) ELSE <<>>,
       IF soup # NoSoup /\ find_og(soup) # NoTag
       THEN clean_event_title(find_og(soup).content) ELSE <<>>,
       IF soup # NoSoup /\ find(soup, {"title"}) # NoTag
       THEN clean_event_title(get_text(find(soup, {"title"}))) ELSE <<>>,
       IF Truthy(fallback_url)
       THEN slug_title(RStripChars(UrlPath(fallback_url), {"/"})) ELSE <<>> >>

FirstNonEmpty(steps) ==
    IF \A k \in DOMAIN steps : steps[k] = <<>> THEN <<>>
    ELSE steps[MinOf({k \in DOMAIN steps : steps[k] # <<>>})]

\* C8: derive_title_from_page returns the first non-empty step of the chain,
\* and the empty string only when every step is empty.
DeriveFirstNonEmpty ==
    ret # <<>> => ret[1] = FirstNonEmpty(ChainSteps(call.soup, call.fallback_url))

ListedKeys == {CATEGORIES[i] : i \in DOMAIN CATEGORIES}

TableKeys == {TV_INFO_keys[i] : i \in DOMAIN TV_INFO_keys}

\* C10: for a category of the list that is a key of the table,
\* get_tv_data_for_category returns the entry stored under that key; for a
\* category of the list it returns the "misc" entry only when the category is
\* the root or motogp.
MetadataReachesEntries ==
    (ret # <<>> /\ call.cat_path \in ListedKeys) =>
        /\ call.cat_path \in TableKeys => ret[1] = TV_INFO(call.cat_path)
        /\ ret[1] = TV_INFO(<<"misc">>) => call.cat_path \in {<<>>, <<"motogp">>}

=============================================================================
